---- MODULE Spec2Model ----
(***************************************************************************)
(* Enrichment pipeline of server.js: the Raw-test-data collection, the     *)
(* Processed-test-data collection (models/Tool), getAIAnalysis,            *)
(* processRawDataItem, POST /process-raw-data, POST /process-item/:id,     *)
(* POST /toggle-auto-process, autoProcessPendingData and the startup       *)
(* timer / cron schedule of startServer.                                   *)
(*                                                                         *)
(* Every await of the code is one step: the awaited store or collaborator  *)
(* operation takes effect and the continuation runs up to the next await.  *)
(* Strings are sequences of text chunks (single characters where the code  *)
(* looks at characters).                                                   *)
(***************************************************************************)
EXTENDS Integers, Sequences, FiniteSets, TLC

\* ---------------------------------------------------------------- bounds
MaxStarts == 2      \* requests and invocations begun in one behaviour
MaxFaults == 1      \* store operations that fail in one behaviour

\* the documents of Raw-test-data, and an id no document carries
Ids == {1, 2}
MissingId == Cardinality(Ids) + 1
\* the ids a single-item request names: a document, and the missing id
ReqIds == {1, MissingId}

\* one POST /process-raw-data request, one autoProcessPendingData invocation
\* and one POST /process-item/:id request can be in flight
Procs == {<<"post", 1>>, <<"auto", 1>>, <<"item", 1>>}
Kind(p) == p[1]

\* ---------------------------------------------------------------- strings
Lower(c) ==
  CASE c = "A" -> "a" [] c = "B" -> "b" [] c = "U" -> "u" [] c = "T" -> "t"
    [] OTHER -> c
IsSpace(c) == c = " "

RECURSIVE DropSpaces(_)
DropSpaces(s) ==
  IF s # <<>> /\ IsSpace(Head(s)) THEN DropSpaces(Tail(s)) ELSE s

RECURSIVE ToLowerCase(_)
ToLowerCase(s) ==
  IF s = <<>> THEN <<>> ELSE <<Lower(Head(s))>> \o ToLowerCase(Tail(s))

\* s.replace(/\s+/g, '-')
RECURSIVE ReplaceSpaces(_)
ReplaceSpaces(s) ==
  IF s = <<>> THEN <<>>
  ELSE IF IsSpace(Head(s)) THEN <<"-">> \o ReplaceSpaces(DropSpaces(Tail(s)))
  ELSE <<Head(s)>> \o ReplaceSpaces(Tail(s))

\* a || b on strings: the empty string is falsy
Or(a, b) == IF a # <<>> THEN a ELSE b

UnknownTool == <<"U","n","k","n","o","w","n"," ","T","o","o","l">>
NoUrlProvided == <<"No URL provided">>
ExcerptLen == 200

\* ---------------------------------------------------------------- documents
Pending == 0
Processed == 1
Failed == -1
NoDate == "unset"
Now == "date"
NoMessage == "unset"

BlankDoc(i) ==
  [id |-> i, exists |-> FALSE,
   appName |-> <<>>, ai_tool_name |-> <<>>, name |-> <<>>, tool_name |-> <<>>,
   appUrl |-> <<>>, app_url |-> <<>>, url |-> <<>>, website |-> <<>>,
   status |-> Pending, processed_at |-> NoDate,
   error_message |-> NoMessage, error_at |-> NoDate]

\* the raw documents the collection is loaded with: odd ids carry appName
\* and name, even ids only tool_name
LoadedDoc(i) ==
  IF i % 2 = 1
    THEN [BlankDoc(i) EXCEPT !.exists = TRUE, !.appName = <<"A"," ","B">>,
                             !.name = <<"T">>, !.appUrl = <<"u1">>]
    ELSE [BlankDoc(i) EXCEPT !.exists = TRUE, !.tool_name = <<"a"," "," ","b">>,
                             !.website = <<"u2">>]

\* a raw document carrying the name fields ns and the URL fields us, numbered
\* in the order the code reads them
ShapedDoc(i, ns, us) ==
  [BlankDoc(i) EXCEPT
     !.exists = TRUE,
     !.appName = IF 1 \in ns THEN <<"A"," ","B">> ELSE <<>>,
     !.ai_tool_name = IF 2 \in ns THEN <<"T">> ELSE <<>>,
     !.name = IF 3 \in ns THEN <<"B">> ELSE <<>>,
     !.tool_name = IF 4 \in ns THEN <<"a"," "," ","b">> ELSE <<>>,
     !.appUrl = IF 1 \in us THEN <<"u1">> ELSE <<>>,
     !.app_url = IF 2 \in us THEN <<"u2">> ELSE <<>>,
     !.url = IF 3 \in us THEN <<"u3">> ELSE <<>>,
     !.website = IF 4 \in us THEN <<"u4">> ELSE <<>>]

\* fault of the resolution: the order of the log line of autoProcessPendingData
ResolveNameLegacy(item) ==
  Or(item.ai_tool_name, Or(item.name, Or(item.appName, Or(item.tool_name, UnknownTool))))

\* item.appName || item.ai_tool_name || item.name || item.tool_name || 'Unknown Tool'
ResolveName(item) ==
  Or(item.appName, Or(item.ai_tool_name, Or(item.name, Or(item.tool_name, UnknownTool))))

\* item.appUrl || item.app_url || item.url || item.website || ''
ResolveUrl(item) ==
  Or(item.appUrl, Or(item.app_url, Or(item.url, Or(item.website, <<>>))))

\* ---------------------------------------------------------------- payloads
NotAList == [isArray |-> FALSE, elems |-> <<>>]
List(s) == [isArray |-> TRUE, elems |-> s]
NoProsCons == [present |-> FALSE, pros |-> <<>>, cons |-> <<>>]

BlankPayload ==
  [name |-> <<>>, slug |-> <<>>, website |-> <<>>, tagline |-> <<>>,
   description |-> <<>>, company |-> <<>>, longDescription |-> <<>>,
   categories |-> NotAList, features |-> NotAList, integrations |-> NotAList,
   prosCons |-> NoProsCons, useCases |-> NotAList, fallback |-> FALSE]

GoodPayload(slug) ==
  [BlankPayload EXCEPT
     !.name = <<"N">>, !.slug = slug, !.website = <<"w">>, !.tagline = <<"t">>,
     !.description = <<"d">>, !.company = <<"c">>, !.longDescription = <<"l">>,
     !.categories = List(<<"AI">>), !.features = List(<<>>),
     !.integrations = List(<<>>),
     !.prosCons = [present |-> TRUE, pros |-> <<>>, cons |-> <<>>],
     !.useCases = List(<<>>)]

\* ---------------------------------------------------------------- replies
\* The text of a chat completion is a sequence of tokens: a fence, a word,
\* white space, or the text of one JSON value.
Fence == [t |-> "fence", src |-> "[fence]", v |-> [k |-> "none", o |-> BlankPayload]]
Word(w) == [t |-> "word", src |-> w, v |-> [k |-> "none", o |-> BlankPayload]]
Ws == [t |-> "ws", src |-> "\n", v |-> [k |-> "none", o |-> BlankPayload]]
JsonNull == [t |-> "json", src |-> "null", v |-> [k |-> "null", o |-> BlankPayload]]
JsonNum == [t |-> "json", src |-> "5", v |-> [k |-> "num", o |-> BlankPayload]]
JsonObj(src, o) == [t |-> "json", src |-> src, v |-> [k |-> "obj", o |-> o]]

RECURSIVE DropWs(_)
DropWs(c) == IF c # <<>> /\ Head(c).t = "ws" THEN DropWs(Tail(c)) ELSE c

RECURSIVE DropWsEnd(_)
DropWsEnd(c) ==
  IF c # <<>> /\ c[Len(c)].t = "ws" THEN DropWsEnd(SubSeq(c, 1, Len(c) - 1)) ELSE c

Trim(c) == DropWsEnd(DropWs(c))

StartsWithFence(c) == c # <<>> /\ c[1].t = "fence"
StartsWithJsonFence(c) ==
  Len(c) >= 2 /\ c[1].t = "fence" /\ c[2].t = "word" /\ c[2].src = "json"

\* .replace(/<fence>\s*$/, '')
StripEndFence(c) ==
  LET d == DropWsEnd(c)
  IN IF d # <<>> /\ d[Len(d)].t = "fence" THEN SubSeq(d, 1, Len(d) - 1) ELSE c

\* server.js 112-119
CleanContent(raw0) ==
  LET content == Trim(raw0)
  IN IF StartsWithJsonFence(content)
       THEN Trim(StripEndFence(DropWs(Tail(Tail(content)))))
     ELSE IF StartsWithFence(content)
       THEN Trim(StripEndFence(DropWs(Tail(content))))
     ELSE content

\* JSON.parse: the text is one JSON value, white space around it allowed
ParsesAsJson(content) == LET c == Trim(content) IN Len(c) = 1 /\ c[1].t = "json"
JsonParse(content) == Trim(content)[1].v

\* fault of the validation: useCases is not looked at
ValidStructureLax(parsed) ==
  /\ parsed.k = "obj"
  /\ parsed.o.name # <<>>
  /\ parsed.o.description # <<>>
  /\ parsed.o.features.isArray
  /\ parsed.o.prosCons.present

\* server.js 126-127
ValidStructure(parsed) ==
  /\ parsed.k = "obj"
  /\ parsed.o.name # <<>>
  /\ parsed.o.description # <<>>
  /\ parsed.o.features.isArray
  /\ parsed.o.prosCons.present
  /\ parsed.o.useCases.isArray

Excerpt(content) ==
  [i \in 1..(IF Len(content) < ExcerptLen THEN Len(content) ELSE ExcerptLen)
     |-> content[i].src]

\* server.js 137-153
FallbackPayload(safeName, safeUrl, content) ==
  [name |-> safeName,
   slug |-> ReplaceSpaces(ToLowerCase(safeName)),
   website |-> safeUrl,
   tagline |-> <<"AI tool analysis for ">> \o safeName,
   description |-> <<"AI tool analysis for ">> \o safeName \o <<". ">>
                     \o Excerpt(content) \o <<"...">>,
   company |-> <<"Unknown">>,
   longDescription |-> <<"Analysis pending - JSON parse error">>,
   categories |-> List(<<"AI Tools">>),
   features |-> List(<<>>),
   integrations |-> List(<<>>),
   prosCons |-> [present |-> TRUE, pros |-> <<>>, cons |-> <<>>],
   useCases |-> List(<<>>),
   fallback |-> TRUE]

\* what openai.chat.completions.create can answer
ApiError == [kind |-> "error", text |-> <<>>]
TextReply(c) == [kind |-> "text", text |-> c]

Replies ==
  { ApiError,
    TextReply(<<Word("sorry")>>),
    TextReply(<<Fence, Word("json"), Ws, JsonObj("{y}", GoodPayload(<<"y">>)), Ws, Fence>>) }

\* every kind of text the completion can carry: empty, prose, JSON that is
\* no object, objects with one required field missing or of the wrong type,
\* a valid object, bare or fenced with the json tag, no tag or another tag
Good == GoodPayload(<<"y">>)
AllReplies ==
  Replies \cup
  { TextReply(<<>>),
    TextReply(<<JsonNull>>),
    TextReply(<<JsonNum>>),
    TextReply(<<JsonObj("{y}", Good)>>),
    TextReply(<<JsonObj("{-name}", [Good EXCEPT !.name = <<>>])>>),
    TextReply(<<JsonObj("{-description}", [Good EXCEPT !.description = <<>>])>>),
    TextReply(<<JsonObj("{-features}", [Good EXCEPT !.features = NotAList])>>),
    TextReply(<<JsonObj("{-prosCons}", [Good EXCEPT !.prosCons = NoProsCons])>>),
    TextReply(<<JsonObj("{-useCases}", [Good EXCEPT !.useCases = NotAList])>>),
    TextReply(<<Fence, Ws, JsonObj("{y}", Good), Ws, Fence>>),
    TextReply(<<Fence, Word("js"), Ws, JsonObj("{y}", Good), Ws, Fence>>),
    TextReply(<<Fence, Word("json"), Ws, JsonObj("{-name}", [Good EXCEPT !.name = <<>>]),
                Ws, Fence>>) }

\* the prompt getAIAnalysis sends, and the arguments it was called with
\*                                                            server.js 46-56
Prompt(toolName, appUrl) ==
  [toolName |-> toolName, appUrl |-> appUrl,
   name |-> Or(toolName, UnknownTool), url |-> Or(appUrl, NoUrlProvided)]
NoPrompt == [toolName |-> <<>>, appUrl |-> <<>>, name |-> <<>>, url |-> <<>>]

\* fault of getAIAnalysis: the outer catch answers with the fallback payload
GetAIAnalysisMasked(toolName, appUrl, reply) ==
  LET safeName == Or(toolName, UnknownTool)
      safeUrl == Or(appUrl, NoUrlProvided)
      content == CleanContent(reply.text)
  IN IF reply.kind # "error" /\ ParsesAsJson(content) /\ ValidStructure(JsonParse(content))
       THEN [threw |-> FALSE, error |-> NoMessage, value |-> JsonParse(content).o]
     ELSE [threw |-> FALSE, error |-> NoMessage,
           value |-> FallbackPayload(safeName, safeUrl, content)]

\* getAIAnalysis (server.js 46-159): the value returned, or the error thrown
GetAIAnalysis(toolName, appUrl, reply) ==
  LET safeName == Or(toolName, UnknownTool)
      safeUrl == Or(appUrl, NoUrlProvided)
      content == CleanContent(reply.text)
  IN IF reply.kind = "error"
       THEN [threw |-> TRUE, error |-> "api error", value |-> BlankPayload]
     ELSE IF ParsesAsJson(content) /\ ValidStructure(JsonParse(content))
       THEN [threw |-> FALSE, error |-> NoMessage, value |-> JsonParse(content).o]
     ELSE [threw |-> FALSE, error |-> NoMessage,
           value |-> FallbackPayload(safeName, safeUrl, content)]

\* ---------------------------------------------------------------- state
VARIABLES
  raw,          \* Raw-test-data: id -> document
  tools,        \* Processed-test-data: the Tool documents, in insertion order
  run,          \* per request / invocation: position and locals
  envAuto,      \* process.env.AUTO_PROCESS
  autoProcess,  \* the constant AUTO_PROCESS, read once at load
  timerArmed,   \* the startup setTimeout has not fired yet
  cronScheduled,\* cron.schedule was called
  attempts,     \* per id, whether processRawDataItem was called never, once or more often
  starts,       \* requests and invocations begun so far
  out,          \* the response sent or summary logged by the latest step, if any
  faults,       \* store operations that have failed so far
  lastSet,      \* the value of the latest toggle request that carried one
  trial         \* the record of a batch repeated on the same store contents

vars == <<raw, tools, run, envAuto, autoProcess, timerArmed, cronScheduled,
          attempts, starts, out, faults, lastSet, trial>>

\* the values req.body.enabled can carry, with their JavaScript truthiness
Undefined == [t |-> "undefined", src |-> "undefined", truthy |-> FALSE]
JsTrue == [t |-> "boolean", src |-> "true", truthy |-> TRUE]
JsFalse == [t |-> "boolean", src |-> "false", truthy |-> FALSE]
JsZero == [t |-> "number", src |-> "0", truthy |-> FALSE]
JsText == [t |-> "string", src |-> "false", truthy |-> TRUE]
Enabled == {Undefined, JsTrue, JsFalse, JsZero, JsText}
JsBool(b) == IF b THEN JsTrue ELSE JsFalse

NoResponse == [code |-> 0, message |-> "none", processed |-> 0, failed |-> 0,
               hasFailed |-> FALSE, processedId |-> 0, results |-> <<>>,
               auto_process_enabled |-> Undefined]

IdleRun ==
  [pc |-> "idle", items |-> <<>>, idx |-> 0, results |-> <<>>,
   pendingCount |-> 0,
   itemId |-> 0,            \* req.params.id of a single-item request
   replyKind |-> "none",    \* how the awaited collaborator call ended
   threw |-> {},            \* ids whose collaborator call threw in this run
   prompt |-> NoPrompt,     \* what the collaborator call in flight was given
   replyText |-> <<>>,      \* the text the collaborator call in flight returned
   aiAnalysis |-> BlankPayload, savedTool |-> 0, error |-> NoMessage,
   response |-> NoResponse]

NoOutput == [by |-> <<"none", 0>>, itemId |-> 0, response |-> NoResponse]

Active(p) == run[p].pc # "idle"
Free(p) == ~Active(p)
InAttempt(p) == run[p].pc \in {"ai", "save", "upd", "catch"}
Item(p) == run[p].items[run[p].idx]

\* collection.find({ status: 0 }).toArray(), in natural (id) order
RECURSIVE FindPendingFrom(_, _)
FindPendingFrom(store, i) ==
  IF i > Cardinality(Ids) THEN <<>>
  ELSE IF store[i].exists /\ store[i].status = Pending
    THEN <<store[i]>> \o FindPendingFrom(store, i + 1)
  ELSE FindPendingFrom(store, i + 1)
\* faults of the selection: no status filter at all; only Processed excluded
FindPendingAll(store) == [i \in 1..Cardinality(Ids) |-> store[i]]
FindPendingNotProcessed(store) ==
  LET keep == {i \in Ids : store[i].exists /\ store[i].status # Processed}
  IN IF keep = Ids THEN [i \in 1..Cardinality(Ids) |-> store[i]]
     ELSE IF keep = {} THEN <<>>
     ELSE <<store[CHOOSE i \in keep : TRUE]>>
FindPending(store) == FindPendingFrom(store, 1)

\* fault of the count: countDocuments({ status: -1 })
CountFailed(store) == Cardinality({i \in Ids : store[i].exists /\ store[i].status = Failed})

\* collection.countDocuments({ status: 0 })
CountPending(store) == Cardinality({i \in Ids : store[i].exists /\ store[i].status = Pending})

\* fault of the single fetch: findOne({ _id }) without the status filter
FindOnePendingAny(store, id) ==
  IF id \in Ids /\ store[id].exists THEN <<store[id]>> ELSE <<>>

\* collection.findOne({ _id, status: 0 })
FindOnePending(store, id) ==
  IF id \in Ids /\ store[id].exists /\ store[id].status = Pending
    THEN <<store[id]>> ELSE <<>>

\* faults of the success update: the status, or the date, is left out
SetProcessedDateOnly(doc) == [doc EXCEPT !.processed_at = Now]
SetProcessedNoDate(doc) == [doc EXCEPT !.status = Processed]

\* updateOne({ _id }, { $set: { status: 1, processed_at } })
SetProcessed(doc) == [doc EXCEPT !.status = Processed, !.processed_at = Now]

\* fault of the failure update: the status is left out of the $set
SetFailedNoStatus(doc, msg) == [doc EXCEPT !.error_message = msg, !.error_at = Now]

\* updateOne({ _id }, { $set: { status: -1, error_message, error_at } })
SetFailed(doc, msg) ==
  [doc EXCEPT !.status = Failed, !.error_message = msg, !.error_at = Now]

\* new Tool({...aiAnalysis, status: 10, processed_at, original_id })
NewTool(aiAnalysis, item) ==
  [doc |-> aiAnalysis, status |-> 10, processed_at |-> Now, original_id |-> item.id]

\* the required paths of toolSchema
ValidatesAsTool(t) ==
  /\ t.doc.name # <<>>
  /\ t.doc.slug # <<>>
  /\ t.doc.website # <<>>
  /\ t.doc.tagline # <<>>
  /\ t.doc.description # <<>>
  /\ t.doc.company # <<>>
  /\ t.doc.longDescription # <<>>

\* the unique index on slug
DuplicateSlug(store, t) == \E i \in 1..Len(store) : store[i].doc.slug = t.doc.slug

\* fault of the insert: the document is stored twice
InsertToolTwice(store, t) == Append(Append(store, t), t)

\* fault of the insert: the save resolves and nothing is stored
InsertToolDropped(store, t) == store

InsertTool(store, t) == Append(store, t)

ToolsOf(id) == {i \in 1..Len(tools) : tools[i].original_id = id}

Bump(n) == IF n = "never" THEN "once" ELSE "again"

\* the record of a trial: the store contents it began on, what the
\* collaborator answered per record, the store calls that failed, the
\* records attempted in order, and how the first batch left things
NoReply == [kind |-> "none", text |-> <<>>]
NoTrial ==
  [phase |-> "first", store0 |-> <<>>, reply |-> [i \in Ids |-> NoReply],
   failed |-> {}, order |-> <<>>,
   first |-> [raw |-> <<>>, tools |-> <<>>, order |-> <<>>, response |-> NoResponse]]

InitRest ==
  /\ trial = [NoTrial EXCEPT !.store0 = raw]
  /\ tools = <<>>
  /\ run = [p \in Procs |-> IdleRun]
  /\ envAuto \in {"unset", "false"}
  /\ autoProcess = (envAuto # "false")
  /\ timerArmed = autoProcess
  /\ cronScheduled = autoProcess
  /\ attempts = [i \in Ids |-> "never"]
  /\ starts = 0
  /\ faults = 0
  /\ out = NoOutput
  /\ lastSet = Undefined

Init == raw = [i \in Ids |-> LoadedDoc(i)] /\ InitRest

\* the handler's locals after a step; a handler that has answered ("done")
\* is gone, and its answer is the output of the step
Settle(p, r) == IF r.pc = "done" THEN IdleRun ELSE r
Output(p, r) ==
  out' = IF r.pc = "done"
           THEN [by |-> p, itemId |-> r.itemId, response |-> r.response]
           ELSE NoOutput

\* a request or invocation p begins and runs to its first await with locals
\* r; at most two handlers are in flight at a time
Started(p, r) ==
  /\ starts < MaxStarts
  /\ \A o, q \in Procs \ {p} : Active(o) /\ Active(q) => o = q
  /\ starts' = starts + 1
  /\ run' = [run EXCEPT ![p] = Settle(p, r)]
  /\ Output(p, r)

\* the handler p resumes and runs to its next await with locals r
SetRun(p, r) ==
  /\ run' = [run EXCEPT ![p] = Settle(p, r)]
  /\ Output(p, r)
  /\ UNCHANGED starts

\* the store operation awaited fails / succeeds
StoreFails == faults < MaxFaults /\ faults' = faults + 1
StoreWorks == UNCHANGED faults

StoreSame == UNCHANGED <<raw, tools>>
SchedSame == UNCHANGED <<envAuto, autoProcess, timerArmed, cronScheduled, lastSet>>

\* ---------------------------------------------------------------- processRawDataItem
\* the caller invokes processRawDataItem(items[k]): runs up to the await of getAIAnalysis
CallItem(r, k) ==
  [r EXCEPT !.idx = k, !.pc = "ai", !.replyKind = "none", !.replyText = <<>>,
            !.prompt = Prompt(ResolveName(r.items[k]), ResolveUrl(r.items[k])),
            !.aiAnalysis = BlankPayload, !.savedTool = 0, !.error = NoMessage]

Called(id) == attempts' = [attempts EXCEPT ![id] = Bump(@)]

SuccessResult(r) ==
  [success |-> TRUE, processedId |-> r.savedTool, error |-> NoMessage,
   originalId |-> r.items[r.idx].id]
FailureResult(r) ==
  [success |-> FALSE, processedId |-> 0, error |-> r.error,
   originalId |-> r.items[r.idx].id]

\* what the caller does with the value processRawDataItem returned
Returned(p, r0, result) ==
  LET r == [r0 EXCEPT !.replyKind = "none", !.aiAnalysis = BlankPayload,
                      !.prompt = NoPrompt, !.replyText = <<>>,
                      !.savedTool = 0, !.error = NoMessage]
  IN
  IF Kind(p) = "item"
    THEN [IdleRun EXCEPT !.pc = "done", !.itemId = r.itemId,
            !.response = IF result.success
               THEN [NoResponse EXCEPT !.code = 200,
                        !.message = "Item processed successfully",
                        !.processedId = result.processedId]
               ELSE [NoResponse EXCEPT !.code = 500, !.message = result.error]]
    ELSE [r EXCEPT !.pc = "delay", !.results = Append(@, result)]

\* what the caller does when processRawDataItem throws
Escaped(p, r0, msg) ==
  LET r == [r0 EXCEPT !.replyKind = "none", !.aiAnalysis = BlankPayload,
                      !.prompt = NoPrompt, !.replyText = <<>>,
                      !.savedTool = 0, !.error = NoMessage]
  IN
  IF Kind(p) = "auto"
    THEN [IdleRun EXCEPT !.pc = "done",
            !.response = [NoResponse EXCEPT !.message = "Auto-processing error"]]
    ELSE [IdleRun EXCEPT !.pc = "done", !.itemId = r.itemId,
            !.response = [NoResponse EXCEPT !.code = 500, !.message = msg]]

\* await getAIAnalysis(toolName, appUrl)                      server.js 176
AiReturns(p, reply) ==
  /\ run[p].pc = "ai"
  /\ LET item == Item(p)
         a == GetAIAnalysis(ResolveName(item), ResolveUrl(item), reply)
         r == [run[p] EXCEPT !.replyKind = reply.kind, !.replyText = reply.text,
                             !.threw = IF reply.kind = "error"
                                         THEN @ \cup {item.id} ELSE @]
     IN SetRun(p, IF a.threw
                    THEN [r EXCEPT !.pc = "catch", !.error = a.error]
                    ELSE [r EXCEPT !.pc = "save", !.aiAnalysis = a.value])
  /\ StoreSame /\ SchedSame /\ UNCHANGED <<attempts, faults>>

\* await tool.save()                                          server.js 181-191
SaveTool(p) ==
  /\ run[p].pc = "save"
  /\ LET t == NewTool(run[p].aiAnalysis, Item(p))
     IN \/ /\ ~ValidatesAsTool(t) \/ DuplicateSlug(tools, t)
           /\ StoreWorks
           /\ SetRun(p, [run[p] EXCEPT !.pc = "catch",
                           !.error = IF ~ValidatesAsTool(t)
                                       THEN "Tool validation failed"
                                       ELSE "E11000 duplicate key"])
           /\ UNCHANGED tools
        \/ /\ ValidatesAsTool(t)
           /\ StoreFails
           /\ SetRun(p, [run[p] EXCEPT !.pc = "catch",
                                       !.error = "store error"])
           /\ UNCHANGED tools
        \/ /\ ValidatesAsTool(t) /\ ~DuplicateSlug(tools, t)
           /\ StoreWorks
           /\ tools' = InsertTool(tools, t)
           /\ SetRun(p, [run[p] EXCEPT !.pc = "upd", !.savedTool = Len(tools) + 1])
  /\ SchedSame /\ UNCHANGED <<raw, attempts>>

\* await rawCollection.updateOne(... status: 1 ...) and return   server.js 194-212
UpdateProcessed(p) ==
  /\ run[p].pc = "upd"
  /\ LET id == Item(p).id
     IN \/ /\ StoreWorks
           /\ raw' = [raw EXCEPT ![id] = SetProcessed(@)]
           /\ SetRun(p, Returned(p, run[p], SuccessResult(run[p])))
        \/ /\ StoreFails
           /\ SetRun(p, [run[p] EXCEPT !.pc = "catch",
                                       !.error = "store error"])
           /\ UNCHANGED raw
  /\ SchedSame /\ UNCHANGED <<tools, attempts>>

\* catch: await rawCollection.updateOne(... status: -1 ...) and return
\*                                                            server.js 214-236
UpdateFailed(p) ==
  /\ run[p].pc = "catch"
  /\ LET id == Item(p).id
     IN \/ /\ StoreWorks
           /\ raw' = [raw EXCEPT ![id] = SetFailed(@, run[p].error)]
           /\ SetRun(p, Returned(p, run[p], FailureResult(run[p])))
        \/ /\ StoreFails
           /\ SetRun(p, Escaped(p, run[p], "store error"))
           /\ UNCHANGED raw
  /\ SchedSame /\ UNCHANGED <<tools, attempts>>

\* ---------------------------------------------------------------- batch callers
\* results.filter(r => r.success).length, results.filter(r => !r.success).length
Successful(results) == Cardinality({i \in 1..Len(results) : results[i].success})
FailedCount(results) == Cardinality({i \in 1..Len(results) : ~results[i].success})

Summary(r, message) ==
  [NoResponse EXCEPT !.code = IF message = "Processing completed" THEN 200 ELSE 0,
                     !.message = message,
                     !.processed = Successful(r.results),
                     !.failed = FailedCount(r.results),
                     !.hasFailed = TRUE,
                     !.results = IF message = "Processing completed"
                                   THEN r.results ELSE <<>>]

\* fault of the loop: the collection is read again after every record and
\* the records found Pending meanwhile are added to the run
DelayRefetch(p) ==
  /\ run[p].pc = "delay"
  /\ LET seen == {run[p].items[k].id : k \in 1..Len(run[p].items)}
         fresh == SelectSeq(FindPending(raw), LAMBDA d : d.id \notin seen)
         r == [run[p] EXCEPT !.items = @ \o fresh]
     IN IF r.idx < Len(r.items)
          THEN /\ SetRun(p, CallItem(r, r.idx + 1))
               /\ Called(r.items[r.idx + 1].id)
          ELSE /\ SetRun(p, [IdleRun EXCEPT !.pc = "done",
                    !.response = IF Kind(p) = "post"
                                   THEN Summary(r, "Processing completed")
                                   ELSE Summary(r, "Auto-processing completed")])
               /\ UNCHANGED attempts
  /\ StoreSame /\ SchedSame /\ UNCHANGED faults

\* await new Promise(resolve => setTimeout(resolve, 1000)), then the next
\* iteration or the code after the loop          server.js 265-277, 453-456
Delay(p) ==
  /\ run[p].pc = "delay"
  /\ IF run[p].idx < Len(run[p].items)
       THEN /\ SetRun(p, CallItem(run[p], run[p].idx + 1))
            /\ Called(run[p].items[run[p].idx + 1].id)
       ELSE /\ SetRun(p, [IdleRun EXCEPT !.pc = "done",
                 !.response = IF Kind(p) = "post"
                                THEN Summary(run[p], "Processing completed")
                                ELSE Summary(run[p], "Auto-processing completed")])
            /\ UNCHANGED attempts
  /\ StoreSame /\ SchedSame /\ UNCHANGED faults

\* app.post('/process-raw-data'): up to the first call of processRawDataItem
\*                                                            server.js 240-261
PostProcessRawData(p) ==
  /\ Kind(p) = "post" /\ Free(p)
  /\ \/ /\ StoreFails
        /\ Started(p, [IdleRun EXCEPT !.pc = "done",
                         !.response = [NoResponse EXCEPT !.code = 500,
                                                         !.message = "store error"]])
        /\ UNCHANGED attempts
     \/ LET pendingItems == FindPending(raw)
        IN /\ StoreWorks
           /\ IF pendingItems = <<>>
             THEN /\ Started(p, [IdleRun EXCEPT !.pc = "done",
                        !.response = [NoResponse EXCEPT !.code = 200,
                                        !.message = "No pending items to process"]])
                  /\ UNCHANGED attempts
             ELSE /\ Started(p, CallItem([IdleRun EXCEPT !.items = pendingItems], 1))
                  /\ Called(pendingItems[1].id)
  /\ StoreSame /\ SchedSame

\* app.post('/process-item/:id'): up to the call of processRawDataItem
\*                                                            server.js 289-306
PostProcessItem(p, id) ==
  /\ Kind(p) = "item" /\ Free(p)
  /\ \/ /\ StoreFails
        /\ Started(p, [IdleRun EXCEPT !.pc = "done", !.itemId = id,
                         !.response = [NoResponse EXCEPT !.code = 500,
                                                         !.message = "store error"]])
        /\ UNCHANGED attempts
     \/ LET found == FindOnePending(raw, id)
        IN /\ StoreWorks
           /\ IF found = <<>>
             THEN /\ Started(p, [IdleRun EXCEPT !.pc = "done", !.itemId = id,
                        !.response = [NoResponse EXCEPT !.code = 404,
                           !.message = "Item not found or already processed"]])
                  /\ UNCHANGED attempts
             ELSE /\ Started(p, CallItem([IdleRun EXCEPT !.itemId = id,
                                                          !.items = found], 1))
                  /\ Called(id)
  /\ StoreSame /\ SchedSame

\* ---------------------------------------------------------------- autoProcessPendingData
\* the call itself, up to the await of countDocuments
AutoCalled(p) == Started(p, [IdleRun EXCEPT !.pc = "count"])

\* fault of the invocation: no try around the count, so its failure is an
\* unhandled rejection that ends the process, and the schedule with it
AutoCountUncaught(p) ==
  /\ run[p].pc = "count"
  /\ \/ /\ StoreFails /\ SetRun(p, Escaped(p, run[p], "store error"))
        /\ cronScheduled' = FALSE /\ timerArmed' = FALSE
        /\ UNCHANGED <<envAuto, autoProcess, lastSet>>
     \/ LET pendingCount == CountPending(raw)
        IN /\ StoreWorks /\ SchedSame
           /\ SetRun(p, IF pendingCount = 0
                THEN [IdleRun EXCEPT !.pc = "done",
                        !.response = [NoResponse EXCEPT
                                        !.message = "No pending items found"]]
                ELSE [run[p] EXCEPT !.pc = "find", !.pendingCount = pendingCount])
  /\ StoreSame /\ UNCHANGED attempts

\* await rawCollection.countDocuments({ status: 0 })          server.js 428-435
AutoCount(p) ==
  /\ run[p].pc = "count"
  /\ \/ StoreFails /\ SetRun(p, Escaped(p, run[p], "store error"))
     \/ LET pendingCount == CountPending(raw)
        IN StoreWorks /\ SetRun(p, IF pendingCount = 0
                       THEN [IdleRun EXCEPT !.pc = "done",
                               !.response = [NoResponse EXCEPT
                                               !.message = "No pending items found"]]
                       ELSE [run[p] EXCEPT !.pc = "find", !.pendingCount = pendingCount])
  /\ StoreSame /\ SchedSame /\ UNCHANGED attempts

\* await rawCollection.find({ status: 0 }).toArray()          server.js 437-443
AutoFind(p) ==
  /\ run[p].pc = "find"
  /\ \/ /\ StoreFails
        /\ SetRun(p, Escaped(p, run[p], "store error"))
        /\ UNCHANGED attempts
     \/ LET pendingItems == FindPending(raw)
        IN /\ StoreWorks
           /\ IF pendingItems = <<>>
             THEN /\ SetRun(p, [IdleRun EXCEPT !.pc = "done",
                       !.response = Summary(run[p], "Auto-processing completed")])
                  /\ UNCHANGED attempts
             ELSE /\ SetRun(p, CallItem([run[p] EXCEPT !.items = pendingItems], 1))
                  /\ Called(pendingItems[1].id)
  /\ StoreSame /\ SchedSame

\* ---------------------------------------------------------------- scheduler
\* setTimeout(() => autoProcessPendingData(), 2000)           server.js 474-477
StartupTimer(p) ==
  /\ timerArmed
  /\ Kind(p) = "auto" /\ Free(p)
  /\ timerArmed' = FALSE
  /\ AutoCalled(p)
  /\ StoreSame
  /\ UNCHANGED <<envAuto, autoProcess, cronScheduled, attempts, faults, lastSet>>

\* cron.schedule('0 */2 * * *', ...)                          server.js 480-485
CronTick(p) ==
  /\ cronScheduled
  /\ Kind(p) = "auto" /\ Free(p)
  /\ envAuto # "false"
  /\ AutoCalled(p)
  /\ StoreSame /\ SchedSame /\ UNCHANGED <<attempts, faults>>

\* the two-hour mark passes without a call of autoProcessPendingData: no
\* schedule was made, or the callback finds process.env.AUTO_PROCESS 'false'
\*                                                            server.js 474-485
TickSkipped == [NoOutput EXCEPT !.by = <<"tick", 0>>]
SkippedTick ==
  /\ ~(cronScheduled /\ envAuto # "false")
  /\ out' = TickSkipped
  /\ StoreSame /\ SchedSame /\ UNCHANGED <<run, attempts, starts, faults>>

\* the two-hour mark of the cron expression            server.js 480-485
IntervalTick(p) == CronTick(p) \/ (Kind(p) = "auto" /\ Free(p) /\ SkippedTick)

\* fault of the toggle: the test for a supplied value is missing, so a
\* request without one writes the flag too
ToggleAutoProcessAlways(enabled) ==
  /\ envAuto' = IF enabled.truthy THEN "true" ELSE "false"
  /\ lastSet' = IF enabled # Undefined THEN enabled ELSE lastSet
  /\ out' = [NoOutput EXCEPT !.by = <<"toggle", 0>>,
               !.response = [NoResponse EXCEPT !.code = 200,
                  !.message = IF enabled # Undefined THEN "Auto-processing set"
                              ELSE "none",
                  !.auto_process_enabled =
                     IF enabled # Undefined THEN enabled
                     ELSE JsBool(envAuto # "false")]]
  /\ StoreSame
  /\ UNCHANGED <<run, autoProcess, timerArmed, cronScheduled, attempts, starts, faults>>

\* app.post('/toggle-auto-process')                          server.js 395-411
ToggleAutoProcess(enabled) ==
  /\ IF enabled # Undefined
       THEN /\ envAuto' = IF enabled.truthy THEN "true" ELSE "false"
            /\ lastSet' = enabled
            /\ out' = [NoOutput EXCEPT !.by = <<"toggle", 0>>,
                         !.response = [NoResponse EXCEPT !.code = 200,
                            !.message = IF enabled.truthy
                                          THEN "Auto-processing enabled"
                                          ELSE "Auto-processing disabled",
                            !.auto_process_enabled = enabled]]
       ELSE /\ UNCHANGED <<envAuto, lastSet>>
            /\ out' = [NoOutput EXCEPT !.by = <<"toggle", 0>>,
                         !.response = [NoResponse EXCEPT !.code = 200,
                            !.auto_process_enabled = JsBool(envAuto # "false")]]
  /\ StoreSame
  /\ UNCHANGED <<run, autoProcess, timerArmed, cronScheduled, attempts, starts, faults>>

Next ==
  \/ \E p \in Procs : PostProcessRawData(p) /\ UNCHANGED trial
  \/ \E p \in Procs, id \in ReqIds : PostProcessItem(p, id) /\ UNCHANGED trial
  \/ \E p \in Procs : StartupTimer(p) /\ UNCHANGED trial
  \/ \E p \in Procs : CronTick(p) /\ UNCHANGED trial
  \/ \E p \in Procs : AutoCount(p) /\ UNCHANGED trial
  \/ \E p \in Procs : AutoFind(p) /\ UNCHANGED trial
  \/ \E p \in Procs, reply \in Replies : AiReturns(p, reply) /\ UNCHANGED trial
  \/ \E p \in Procs : SaveTool(p) /\ UNCHANGED trial
  \/ \E p \in Procs : UpdateProcessed(p) /\ UNCHANGED trial
  \/ \E p \in Procs : UpdateFailed(p) /\ UNCHANGED trial
  \/ \E p \in Procs : Delay(p) /\ UNCHANGED trial

Spec == Init /\ [][Next]_vars

\* the executions in which no two requests or invocations overlap: a handler
\* begins only when no other is in flight
NoOverlap == \A p, q \in Procs : Active(p) /\ Active(q) => p = q
NextSolo == Next /\ NoOverlap'
SpecSolo == Init /\ [][NextSolo]_vars

\* the scheduler with the toggle requests and every two-hour mark, and the
\* invocations of autoProcessPendingData they begin
NextSched ==
  \/ \E enabled \in Enabled : ToggleAutoProcess(enabled) /\ UNCHANGED trial
  \/ \E p \in Procs : StartupTimer(p) /\ UNCHANGED trial
  \/ \E p \in Procs : IntervalTick(p) /\ UNCHANGED trial
  \/ \E p \in Procs : AutoCount(p) /\ UNCHANGED trial
  \/ \E p \in Procs : AutoFind(p) /\ UNCHANGED trial
  \/ \E p \in Procs, reply \in Replies : AiReturns(p, reply) /\ UNCHANGED trial
  \/ \E p \in Procs : SaveTool(p) /\ UNCHANGED trial
  \/ \E p \in Procs : UpdateProcessed(p) /\ UNCHANGED trial
  \/ \E p \in Procs : UpdateFailed(p) /\ UNCHANGED trial
  \/ \E p \in Procs : Delay(p) /\ UNCHANGED trial
SpecSched == Init /\ [][NextSched]_vars

\* a record becomes Pending from outside the server: a document is added to
\* Raw-test-data, or an operator resets a Processed or Failed one
BecomesPending(id) ==
  /\ \/ ~raw[id].exists /\ raw' = [raw EXCEPT ![id] = LoadedDoc(id)]
     \/ /\ raw[id].exists /\ raw[id].status # Pending
        /\ raw' = [raw EXCEPT ![id].status = Pending]
  /\ out' = NoOutput
  /\ SchedSame /\ UNCHANGED <<tools, run, attempts, starts, faults>>

\* the batch triggers, one at a time, on a collection that receives Pending
\* records while they run
InitGrow ==
  /\ raw = [i \in Ids |-> IF i = 1 THEN LoadedDoc(i) ELSE BlankDoc(i)]
  /\ InitRest
StepGrow ==
  \/ \E id \in Ids : BecomesPending(id) /\ UNCHANGED trial
  \/ \E p \in Procs : PostProcessRawData(p) /\ UNCHANGED trial
  \/ \E p \in Procs : StartupTimer(p) /\ UNCHANGED trial
  \/ \E p \in Procs : CronTick(p) /\ UNCHANGED trial
  \/ \E p \in Procs : AutoCount(p) /\ UNCHANGED trial
  \/ \E p \in Procs : AutoFind(p) /\ UNCHANGED trial
  \/ \E p \in Procs, reply \in Replies : AiReturns(p, reply) /\ UNCHANGED trial
  \/ \E p \in Procs : SaveTool(p) /\ UNCHANGED trial
  \/ \E p \in Procs : UpdateProcessed(p) /\ UNCHANGED trial
  \/ \E p \in Procs : UpdateFailed(p) /\ UNCHANGED trial
  \/ \E p \in Procs : Delay(p) /\ UNCHANGED trial
NextGrow == StepGrow /\ NoOverlap'
SpecGrow == InitGrow /\ [][NextGrow]_vars

\* single-item requests on raw documents of every shape, the collaborator
\* answering with every kind of text
NameFields == 1..4
UrlFields == 1..4
InitText ==
  /\ \E ns \in SUBSET NameFields, us \in SUBSET UrlFields :
       raw = [i \in Ids |-> IF i = 1 THEN ShapedDoc(i, ns, us) ELSE LoadedDoc(i)]
  /\ InitRest
NextText ==
  \/ \E p \in Procs, id \in ReqIds : PostProcessItem(p, id) /\ UNCHANGED trial
  \/ \E p \in Procs, reply \in AllReplies : AiReturns(p, reply) /\ UNCHANGED trial
  \/ \E p \in Procs : SaveTool(p) /\ UNCHANGED trial
  \/ \E p \in Procs : UpdateProcessed(p) /\ UNCHANGED trial
  \/ \E p \in Procs : UpdateFailed(p) /\ UNCHANGED trial
SpecText == InitText /\ [][NextText]_vars

\* ---------------------------------------------------------------- a batch repeated
\* POST /process-raw-data runs alone on a store; then autoProcessPendingData
\* runs alone on the same store contents, the collaborator answering for
\* each record, and the store calls failing, as they did the first time
First(p) == trial.phase = "first" /\ Kind(p) = "post"
Second(p) == trial.phase = "second" /\ Kind(p) = "auto"

\* the store call a step of p awaits: the selection, or a write of an attempt
Select == <<0, "select">>
CallPoint(p) == IF InAttempt(p) THEN <<Item(p).id, run[p].pc>> ELSE Select
Fails == faults' # faults
Attempted ==
  IF attempts' = attempts THEN <<>>
  ELSE <<CHOOSE i \in Ids : attempts'[i] # attempts[i]>>

\* the outcomes of the first batch are recorded
Recorded(p, reply) ==
  trial' = [trial EXCEPT
              !.failed = IF Fails THEN @ \cup {CallPoint(p)} ELSE @,
              !.reply = IF run[p].pc = "ai"
                          THEN [@ EXCEPT ![Item(p).id] = reply] ELSE @,
              !.order = @ \o Attempted]

\* the second batch meets the same outcomes: countDocuments or find fails
\* when the find of the first batch failed
Replayed(p, reply) ==
  /\ run[p].pc = "ai" => reply = trial.reply[Item(p).id]
  /\ run[p].pc = "count" => (Fails => Select \in trial.failed)
  /\ run[p].pc \in {"find", "save", "upd", "catch"} =>
       (Fails <=> CallPoint(p) \in trial.failed)
  /\ trial' = [trial EXCEPT !.order = @ \o Attempted]

Outcome(p, reply) == IF First(p) THEN Recorded(p, reply) ELSE Replayed(p, reply)
InTrial(p) == First(p) \/ Second(p)
Begins(p) == InTrial(p) /\ starts = 0

\* the first batch has answered: the store is put back to the contents it
\* began on, for the second batch
Repeat ==
  /\ trial.phase = "first"
  /\ \E p \in Procs : Kind(p) = "post" /\ out.by = p
  /\ trial' = [trial EXCEPT !.phase = "second", !.order = <<>>,
                            !.first = [raw |-> raw, tools |-> tools,
                                       order |-> trial.order,
                                       response |-> out.response]]
  /\ raw' = trial.store0
  /\ tools' = <<>>
  /\ attempts' = [i \in Ids |-> "never"]
  /\ starts' = 0
  /\ faults' = 0
  /\ out' = NoOutput
  /\ SchedSame /\ UNCHANGED run

\* stores in which each record is Pending or was Failed by an earlier attempt
InitTrial ==
  /\ \E F \in SUBSET Ids :
       raw = [i \in Ids |-> IF i \in F THEN SetFailed(LoadedDoc(i), "api error")
                                      ELSE LoadedDoc(i)]
  /\ InitRest
  /\ autoProcess
NextTrial ==
  \/ \E p \in Procs : Begins(p) /\ PostProcessRawData(p) /\ Outcome(p, NoReply)
  \/ \E p \in Procs : Begins(p) /\ StartupTimer(p) /\ Outcome(p, NoReply)
  \/ \E p \in Procs : Begins(p) /\ CronTick(p) /\ Outcome(p, NoReply)
  \/ \E p \in Procs : InTrial(p) /\ AutoCount(p) /\ Outcome(p, NoReply)
  \/ \E p \in Procs : InTrial(p) /\ AutoFind(p) /\ Outcome(p, NoReply)
  \/ \E p \in Procs, reply \in Replies :
       InTrial(p) /\ AiReturns(p, reply) /\ Outcome(p, reply)
  \/ \E p \in Procs : InTrial(p) /\ SaveTool(p) /\ Outcome(p, NoReply)
  \/ \E p \in Procs : InTrial(p) /\ UpdateProcessed(p) /\ Outcome(p, NoReply)
  \/ \E p \in Procs : InTrial(p) /\ UpdateFailed(p) /\ Outcome(p, NoReply)
  \/ \E p \in Procs : InTrial(p) /\ Delay(p) /\ Outcome(p, NoReply)
  \/ Repeat
SpecTrial == InitTrial /\ [][NextTrial]_vars

\* ---------------------------------------------------------------- properties
Batch(p) == Kind(p) \in {"post", "auto"}
IsTerminal(id) == raw[id].status \in {Processed, Failed}
ItemIds(r) == {r.items[k].id : k \in 1..Len(r.items)}

\* the ids p fetched and has not finished with
AheadIds(p) ==
  LET r == run[p]
  IN IF r.pc \in {"ai", "save", "upd", "catch"}
       THEN {r.items[k].id : k \in r.idx..Len(r.items)}
     ELSE IF r.pc = "delay"
       THEN {r.items[k].id : k \in (r.idx + 1)..Len(r.items)}
     ELSE {}
Settled(id) == \A p \in Procs : id \notin AheadIds(p)

\* the step is one of handler p
Acts(p) == run'[p] # run[p] \/ (starts' # starts /\ out'.by = p)
\* the step is the status=Pending read of batch p
Selects(p) ==
  /\ Acts(p)
  /\ \/ Kind(p) = "post" /\ run[p].pc = "idle"
     \/ Kind(p) = "auto" /\ run[p].pc = "find"
\* the step applies an updateOne of p to document id
WritesRaw(p, id) ==
  /\ run[p].pc \in {"upd", "catch"}
  /\ Item(p).id = id
  /\ run'[p] # run[p]
  /\ faults' = faults
\* the step ends the attempt of p by returning result
Returns(p, result) ==
  IF Kind(p) = "item"
    THEN /\ out'.by = p
         /\ out'.response.code = (IF result.success THEN 200 ELSE 500)
         /\ result.success \/ out'.response.message = result.error
    ELSE run'[p].results = Append(run[p].results, result)

\* C1 (as stated): once a record is Processed or Failed, no step of any
\* trigger, overlapping ones included, applies an update to it again.
C1_TerminalNeverWritten ==
  [][\A id \in Ids : IsTerminal(id) => \A p \in Procs : ~WritesRaw(p, id)]_vars

\* C1 (amended): once a record is Processed or Failed and no handler that
\* fetched it while Pending is still in progress, no step changes the record
\* and no later trigger fetches it.
C1_SettledTerminalStays ==
  [][\A id \in Ids :
       (IsTerminal(id) /\ Settled(id)) => (raw'[id] = raw[id] /\ Settled(id)')]_vars

C1_Witness ==
  \E id \in Ids, p \in Procs :
    /\ IsTerminal(id) /\ Settled(id) /\ attempts[id] = "once"
    /\ Batch(p) /\ InAttempt(p) /\ id \notin ItemIds(run[p])

\* C2: a batch's status=Pending read returns only records that are Pending
\* at that moment, the batch writes raw documents and inserts tools only for
\* the records it read, and a read that finds no Pending record ends the
\* trigger with both collections unchanged.
C2_BatchSkipsTerminal ==
  [][\A p \in Procs : Batch(p) =>
       /\ Selects(p) =>
            \A k \in 1..Len(run'[p].items) :
              LET id == run'[p].items[k].id
              IN raw[id].exists /\ raw[id].status = Pending
       /\ Acts(p) => \A id \in Ids : raw'[id] # raw[id] => id \in ItemIds(run[p])
       /\ (Acts(p) /\ tools' # tools) =>
            /\ Len(tools') = Len(tools) + 1
            /\ tools'[Len(tools')].original_id \in ItemIds(run[p])
       /\ (Selects(p) /\ CountPending(raw) = 0) =>
            (~Active(p)' /\ raw' = raw /\ tools' = tools /\ attempts' = attempts)]_vars

C2_Witness ==
  /\ Kind(out.by) = "post"
  /\ out.response.message = "No pending items to process"
  /\ \A id \in Ids : IsTerminal(id)

\* C3 (as stated): at most one tool per raw id, in every reachable state.
C3_AtMostOneEnriched == \A id \in Ids : Cardinality(ToolsOf(id)) <= 1

\* C3 (amended): a record never attempted has no tool, and a record on which
\* processRawDataItem was called once has at most one tool.
C3_OnePerAttempt ==
  \A id \in Ids :
    /\ attempts[id] = "never" => ToolsOf(id) = {}
    /\ attempts[id] = "once" => Cardinality(ToolsOf(id)) <= 1

C3_Witness ==
  \E id \in Ids :
    attempts[id] = "once" /\ raw[id].status = Processed /\ Cardinality(ToolsOf(id)) = 1

\* C4: with no attempt on it in flight, a Failed record has no tool.
C4_FailedHasNoEnriched ==
  \A id \in Ids :
    (raw[id].status = Failed /\ \A p \in Procs : ~(InAttempt(p) /\ Item(p).id = id))
      => ToolsOf(id) = {}

\* C5: when a batch that ran alone ends and every failure in it was a
\* collaborator failure (no store operation failed), its summary has
\* processed + failed = N and failed = |F|, F being the records whose
\* collaborator call threw; the records of F are Failed with the error
\* recorded and got no tool from the batch, the others are Processed and the
\* batch's result names the tool it inserted for them, their only one when
\* the batch was their first attempt.
NoStoreFailure(r) ==
  \A k \in 1..Len(r.results) :
    r.results[k].success \/ r.results[k].originalId \in r.threw
C5_BatchSummary ==
  [][\A p \in Procs :
       (Batch(p) /\ run[p].pc = "delay" /\ ~Active(p)' /\ NoStoreFailure(run[p])) =>
         LET r == run[p]
             F == r.threw
         IN /\ out'.by = p
            /\ Len(r.results) = Len(r.items)
            /\ out'.response.processed + out'.response.failed = Len(r.items)
            /\ out'.response.failed = Cardinality(F)
            /\ \A k \in 1..Len(r.items) :
                 LET id == r.items[k].id
                 IN /\ r.results[k].originalId = id
                    /\ IF id \in F
                         THEN /\ raw[id].status = Failed
                              /\ raw[id].error_message # NoMessage
                              /\ ~r.results[k].success
                              /\ attempts[id] = "once" => ToolsOf(id) = {}
                         ELSE /\ raw[id].status = Processed
                              /\ r.results[k].success
                              /\ r.results[k].processedId \in 1..Len(tools)
                              /\ tools[r.results[k].processedId].original_id = id
                              /\ attempts[id] = "once" =>
                                   Cardinality(ToolsOf(id)) = 1]_vars

C5_Witness ==
  /\ Kind(out.by) = "post"
  /\ out.response.message = "Processing completed"
  /\ out.response.processed = 1 /\ out.response.failed = 1
  /\ \E k \in 1..Len(out.response.results) :
       out.response.results[k].error = "api error"

\* C6: a batch that has read a non-empty snapshot ends only after every
\* record of it was attempted, and POST /process-raw-data then answers 200.
C6_BatchNeverAborts ==
  [][\A p \in Procs :
       (Batch(p) /\ Active(p) /\ run[p].items # <<>> /\ ~Active(p)') =>
         /\ run[p].pc = "delay"
         /\ Len(run[p].results) = Len(run[p].items)
         /\ Kind(p) = "post" => out'.response.code = 200]_vars

\* C7: when the collaborator call of an attempt throws, the fallback is not
\* used and no tool is inserted; the attempt ends with the record Failed,
\* error_message and error_at set, and returns the failure result that
\* carries the error text and the original id.
C7_ApiFailureNotMasked ==
  [][\A p \in Procs :
       (InAttempt(p) /\ run[p].replyKind = "error") =>
         /\ run[p].pc = "catch"
         /\ run[p].error = "api error"
         /\ run[p].aiAnalysis = BlankPayload
         /\ run[p].savedTool = 0
         /\ run'[p] # run[p] =>
              /\ tools' = tools
              /\ raw'[Item(p).id].status = Failed
              /\ raw'[Item(p).id].error_message = "api error"
              /\ raw'[Item(p).id].error_at = Now
              /\ Returns(p, [success |-> FALSE, processedId |-> 0,
                             error |-> "api error",
                             originalId |-> Item(p).id])]_vars

\* C8: when the reply is text that does not decode, the save of the
\* fallback payload succeeds whenever the store is available, whatever the
\* tools collection holds.
C8_MalformedNeverFails ==
  [][\A p \in Procs :
       (/\ run[p].pc = "save" /\ run[p].replyKind = "text"
        /\ run[p].aiAnalysis.fallback
        /\ run'[p] # run[p] /\ faults' = faults) =>
         /\ run'[p].pc = "upd"
         /\ Len(tools') = Len(tools) + 1
         /\ tools'[Len(tools')].doc = run[p].aiAnalysis]_vars

\* C9: a single-item request for an id that is missing or not Pending ends
\* at once, with 404 when the store answered, without calling
\* processRawDataItem and with both collections unchanged.
C9_ItemNotPending ==
  [][\A p \in Procs :
       (Kind(p) = "item" /\ Free(p) /\ Acts(p)) =>
         LET id == IF Active(p)' THEN run'[p].itemId ELSE out'.itemId
         IN (id \notin Ids \/ ~raw[id].exists \/ raw[id].status # Pending) =>
              /\ ~Active(p)'
              /\ faults' = faults => out'.response.code = 404
              /\ raw' = raw /\ tools' = tools /\ attempts' = attempts]_vars

C9_Witness ==
  /\ Kind(out.by) = "item"
  /\ out.response.code = 404
  /\ out.itemId \in Ids
  /\ raw[out.itemId].status = Processed

\* C10: after an attempt whose save succeeded and whose update to
\* Processed failed, the record is still Pending, so that the next
\* status=Pending read returns it again.
C10_StaysPending ==
  [][\A p \in Procs :
       (run[p].pc = "catch" /\ run[p].savedTool # 0 /\ run'[p] # run[p]) =>
         /\ raw'[Item(p).id].status = Pending
         /\ \E k \in 1..Len(FindPending(raw')) :
              FindPending(raw')[k].id = Item(p).id]_vars

\* the step is a two-hour mark at which autoProcessPendingData is called
TickFires(p) ==
  /\ Kind(p) = "auto"
  /\ run[p].pc = "idle" /\ run'[p].pc = "count"
  /\ timerArmed' = timerArmed
\* the step is the startup timer calling autoProcessPendingData
StartupFires == timerArmed /\ ~timerArmed'
\* the step is a toggle request; one that carries no value has no message
ByToggle == out'.by = <<"toggle", 0>>

\* C11: at a two-hour mark a batch is triggered if and only if the flag is
\* enabled at that moment, whatever its value was at process start.
C11_TickFollowsFlag ==
  [][/\ out' = TickSkipped => envAuto = "false"
     /\ \A p \in Procs : TickFires(p) => envAuto # "false"]_vars

\* C12: the startup batch is triggered at most once, and only when the
\* toggleable flag is enabled when the warm-up delay elapses.
C12_StartupFollowsFlag ==
  [][/\ StartupFires => envAuto # "false"
     /\ ~timerArmed => ~timerArmed']_vars

\* C18: a toggle request with a value answers with that value and makes it
\* the flag; a request without a value leaves the flag alone and reports,
\* as a boolean, the truth value of the latest value set; no other step
\* changes the flag; and a scheduled two-hour mark calls
\* autoProcessPendingData exactly when that truth value is true.
C18_FlagIsRegister ==
  [][/\ ByToggle =>
          IF out'.response.message = "none"
            THEN /\ envAuto' = envAuto
                 /\ out'.response.auto_process_enabled.t = "boolean"
                 /\ lastSet # Undefined =>
                      out'.response.auto_process_enabled = JsBool(lastSet.truthy)
            ELSE /\ lastSet' # Undefined
                 /\ out'.response.auto_process_enabled = lastSet'
     /\ ~ByToggle => envAuto' = envAuto
     /\ (cronScheduled /\ lastSet # Undefined) =>
          /\ \A p \in Procs : TickFires(p) => lastSet.truthy
          /\ out' = TickSkipped => ~lastSet.truthy]_vars

C18_Witness ==
  /\ out.by = <<"toggle", 0>>
  /\ out.response.message = "none"
  /\ lastSet = JsFalse
  /\ out.response.auto_process_enabled = JsFalse
  /\ cronScheduled

\* C13: a batch attempts its records one at a time in snapshot order: the
\* attempt on record i+1 begins only from the delay that follows the return
\* of the attempt on record i, whose terminal status is then written, and
\* every collaborator call and store write of the batch is for the record
\* of its one attempt in flight.
C13_OneAtATime ==
  [][\A p \in Procs : (Batch(p) /\ Acts(p)) =>
       /\ (Active(p)' /\ run'[p].idx # run[p].idx) =>
            IF run[p].idx = 0
              THEN run'[p].idx = 1 /\ run'[p].results = <<>>
              ELSE /\ run[p].pc = "delay"
                   /\ run'[p].idx = run[p].idx + 1
                   /\ run'[p].items = run[p].items
                   /\ Len(run[p].results) = run[p].idx
                   /\ run[p].results[run[p].idx].originalId = Item(p).id
                   /\ IsTerminal(Item(p).id)
       /\ \A id \in Ids : raw'[id] # raw[id] => (InAttempt(p) /\ id = Item(p).id)
       /\ tools' # tools =>
            (InAttempt(p) /\ tools'[Len(tools')].original_id = Item(p).id)
       /\ attempts' # attempts =>
            /\ run'[p].pc = "ai" /\ run'[p].idx # run[p].idx
            /\ attempts' = [attempts EXCEPT
                              ![run'[p].items[run'[p].idx].id] = Bump(@)]]_vars

C13_Witness ==
  \E p \in Procs :
    /\ Batch(p) /\ InAttempt(p) /\ run[p].idx = 2
    /\ run[p].results[1].originalId = run[p].items[1].id
    /\ IsTerminal(run[p].items[1].id)

\* the five conditions on a payload
Complete(a) ==
  /\ a.name # <<>>
  /\ a.description # <<>>
  /\ a.features.isArray
  /\ a.prosCons.present
  /\ a.useCases.isArray
IsObject(tok) == tok.t = "json" /\ tok.v.k = "obj"
\* getAIAnalysis has returned to the attempt of p, which is about to save
Normalised(p) == run[p].pc = "save" /\ run[p].replyKind = "text"

\* C14: whatever text the collaborator returned, getAIAnalysis returns a
\* payload with a non-empty name and description, list-typed features and
\* useCases and a prosCons structure; the payload is an object of the reply
\* only if that object meets the five conditions, and it is the fallback
\* with empty lists otherwise; a bare object that meets them is returned as
\* it is.
C14_NormaliseTotal ==
  \A p \in Procs : Normalised(p) =>
    LET a == run[p].aiAnalysis
        text == run[p].replyText
    IN /\ Complete(a)
       /\ ~a.fallback =>
            \E k \in 1..Len(text) : IsObject(text[k]) /\ text[k].v.o = a
       /\ a.fallback =>
            /\ a.features = List(<<>>) /\ a.useCases = List(<<>>)
            /\ a.integrations = List(<<>>)
            /\ a.prosCons.pros = <<>> /\ a.prosCons.cons = <<>>
       /\ (\A k \in 1..Len(text) : IsObject(text[k]) => ~Complete(text[k].v.o))
            => a.fallback
       /\ (Len(text) = 1 /\ IsObject(text[1]) /\ Complete(text[1].v.o))
            => a = text[1].v.o

C14_Witness ==
  \E p \in Procs :
    /\ Normalised(p)
    /\ run[p].replyText = <<JsonNull>>
    /\ run[p].aiAnalysis.fallback
    /\ run[p].aiAnalysis.name = UnknownTool

\* the text is a fence, an optional language tag, an object that meets the
\* five conditions, and the closing fence, with white space between them
FencedObject(text) ==
  /\ Len(text) >= 3
  /\ text[1].t = "fence" /\ text[Len(text)].t = "fence"
  /\ \E k \in 2..(Len(text) - 1) :
       /\ IsObject(text[k]) /\ Complete(text[k].v.o)
       /\ \A j \in (2..(Len(text) - 1)) \ {k} :
            text[j].t = "ws" \/ (j = 2 /\ text[j].t = "word")
Enclosed(text) == text[CHOOSE k \in 1..Len(text) : IsObject(text[k])].v.o

\* C15: for a valid object wrapped in a fenced block, with no language tag
\* or with any language tag, getAIAnalysis returns the enclosed object and
\* not the fallback.
C15_FenceStripped ==
  \A p \in Procs : (Normalised(p) /\ FencedObject(run[p].replyText)) =>
    /\ ~run[p].aiAnalysis.fallback
    /\ run[p].aiAnalysis = Enclosed(run[p].replyText)

\* the first non-empty string of seq, or dflt when there is none
FirstNonEmpty(seq, dflt) ==
  IF \A k \in 1..Len(seq) : seq[k] = <<>> THEN dflt
  ELSE seq[CHOOSE k \in 1..Len(seq) :
             seq[k] # <<>> /\ \A j \in 1..(k - 1) : seq[j] = <<>>]
NamesOf(item) == <<item.appName, item.ai_tool_name, item.name, item.tool_name>>
UrlsOf(item) == <<item.appUrl, item.app_url, item.url, item.website>>

\* C16: the name given to getAIAnalysis and used in the prompt is the first
\* non-empty of appName, ai_tool_name, name, tool_name, or 'Unknown Tool';
\* the URL given is the first non-empty of appUrl, app_url, url, website; the
\* prompt and the fallback payload carry that URL, or 'No URL provided' when
\* there is none, never the empty string.
C16_Resolution ==
  \A p \in Procs : InAttempt(p) =>
    LET item == Item(p)
        a == run[p].aiAnalysis
    IN /\ run[p].prompt.toolName = FirstNonEmpty(NamesOf(item), UnknownTool)
       /\ run[p].prompt.name = FirstNonEmpty(NamesOf(item), UnknownTool)
       /\ run[p].prompt.appUrl = FirstNonEmpty(UrlsOf(item), <<>>)
       /\ run[p].prompt.url = FirstNonEmpty(UrlsOf(item), NoUrlProvided)
       /\ run[p].prompt.url # <<>>
       /\ a.fallback =>
            /\ a.name = FirstNonEmpty(NamesOf(item), UnknownTool)
            /\ a.website = FirstNonEmpty(UrlsOf(item), NoUrlProvided)
            /\ a.website # <<>>

C16_Witness ==
  \E p \in Procs :
    /\ InAttempt(p) /\ run[p].aiAnalysis.fallback
    /\ Item(p).appName = <<>> /\ Item(p).ai_tool_name = <<>>
    /\ Item(p).name # <<>> /\ Item(p).tool_name # <<>>
    /\ run[p].aiAnalysis.name = Item(p).name
    /\ UrlsOf(Item(p)) = <<<<>>, <<>>, <<>>, <<>>>>
    /\ run[p].aiAnalysis.website = NoUrlProvided

PendingIds == {i \in Ids : raw[i].exists /\ raw[i].status = Pending}

\* C17: a batch run attempts exactly the records its one status=Pending
\* read returned, each once: the snapshot is the set of records Pending at
\* the read and never changes afterwards, every attempt of the run is on the
\* next record of the snapshot, and a record outside the snapshot, such as
\* one that became Pending after the read, is not written by the run.
C17_SnapshotOnly ==
  [][\A p \in Procs : (Batch(p) /\ Acts(p)) =>
       /\ (Selects(p) /\ faults' = faults) =>
            IF PendingIds = {} THEN ~Active(p)'
            ELSE /\ ItemIds(run'[p]) = PendingIds
                 /\ Len(run'[p].items) = Cardinality(PendingIds)
       /\ (run[p].items # <<>> /\ Active(p)') => run'[p].items = run[p].items
       /\ attempts' # attempts =>
            /\ run'[p].idx = run[p].idx + 1
            /\ run'[p].idx \in 1..Len(run'[p].items)
            /\ attempts' = [attempts EXCEPT
                              ![run'[p].items[run'[p].idx].id] = Bump(@)]
       /\ \A id \in Ids \ ItemIds(run[p]) : raw'[id] = raw[id]
       /\ tools' # tools => tools'[Len(tools')].original_id \in ItemIds(run[p])
       /\ (run[p].items # <<>> /\ ~Active(p)' /\ run[p].pc = "delay") =>
            Len(run[p].results) = Len(run[p].items)]_vars

C17_Witness ==
  /\ Kind(out.by) = "post"
  /\ out.response.message = "Processing completed"
  /\ Len(out.response.results) = 1
  /\ \E id \in Ids :
       /\ raw[id].exists /\ raw[id].status = Pending /\ attempts[id] = "never"
       /\ out.response.results[1].originalId # id

\* C19 (as stated): every record that is not Pending has processed_at set.
C19_TerminalHasProcessedAt ==
  \A id \in Ids : raw[id].status # Pending => raw[id].processed_at # NoDate

\* C19 (amended): every Processed record has processed_at set; a Failed
\* record has error_message and error_at set, and has processed_at only if
\* it was Processed before by another attempt; a record never Processed has
\* no processed_at.
C19_TerminalHasItsDate ==
  \A id \in Ids :
    /\ raw[id].status = Processed => raw[id].processed_at = Now
    /\ raw[id].status = Failed =>
         /\ raw[id].error_at = Now /\ raw[id].error_message # NoMessage
         /\ raw[id].processed_at # NoDate => attempts[id] = "again"
    /\ raw[id].status = Pending => raw[id].processed_at = NoDate

C19_Witness ==
  \E id, other \in Ids :
    /\ raw[id].status = Failed /\ raw[id].processed_at = NoDate
    /\ raw[id].error_at = Now
    /\ raw[other].status = Processed /\ raw[other].processed_at = Now

\* C20 (as stated): a record has error_message or error_at only if it is
\* Failed, overlapping triggers included.
C20_ErrorFieldsOnlyIfFailed ==
  \A id \in Ids :
    (raw[id].error_message # NoMessage \/ raw[id].error_at # NoDate)
      => raw[id].status = Failed

\* C20 (amended): a record has error_message exactly when it has error_at;
\* a Pending record has neither; a record that has them is Failed, or is
\* Processed after more than one attempt on it (one attempt wrote Failed and
\* an overlapping one wrote Processed afterwards, which leaves the error
\* fields in place).
C20_ErrorFieldsOrigin ==
  \A id \in Ids :
    /\ raw[id].error_message # NoMessage <=> raw[id].error_at # NoDate
    /\ raw[id].error_at # NoDate =>
         \/ raw[id].status = Failed
         \/ raw[id].status = Processed /\ attempts[id] = "again"

C20_Witness ==
  \E id, other \in Ids :
    /\ raw[id].status = Failed /\ raw[id].error_message = "api error"
    /\ attempts[id] = "once"
    /\ raw[other].status = Processed /\ raw[other].error_message = NoMessage
    /\ raw[other].error_at = NoDate

\* C21: every Processed record has at least one tool whose original_id is its
\* id, and a handler that has reached the status update of an attempt has
\* the tool it saved in the store already: the insert completes before the
\* update to Processed is issued, whatever fails between the two writes.
C21_ProcessedHasEnriched ==
  /\ \A id \in Ids : raw[id].status = Processed => ToolsOf(id) # {}
  /\ \A p \in Procs :
       run[p].pc = "upd" => run[p].savedTool \in ToolsOf(Item(p).id)

\* one record Processed with its tool, another whose insert completed and
\* whose status update failed
C21_Witness ==
  \E id, other \in Ids :
    /\ raw[id].status = Processed /\ ToolsOf(id) # {}
    /\ raw[other].status # Processed /\ ToolsOf(other) # {} /\ faults > 0
    /\ \A p \in Procs : ~InAttempt(p)

\* the step that ends an attempt of p: processRawDataItem returns or throws
EndsAttempt(p) ==
  InAttempt(p) /\ run'[p].pc \notin {"ai", "save", "upd", "catch"}

\* the step in which p starts an attempt after its first
StartsNextAttempt(p) ==
  run[p].idx >= 1 /\ run'[p].pc = "ai" /\ run'[p].idx = run[p].idx + 1

\* C22: in a batch, every attempt, successful or failed, is followed by a
\* delay step, and an attempt after the first starts only out of a delay
\* step: no two consecutive attempts of a batch without a delay between them.
C22_DelayAfterEveryAttempt ==
  [][\A p \in Procs : Batch(p) =>
        /\ EndsAttempt(p) => run'[p].pc = "delay"
        /\ StartsNextAttempt(p) => run[p].pc = "delay"]_vars

\* C23: when autoProcessPendingData has run on the store contents a POST
\* /process-raw-data batch ran on, with the same collaborator and store
\* outcomes per record, it has attempted the same records in the same order,
\* both stores are as the POST batch left them, and its counts of successes
\* and failures are those of the POST batch.
C23_SameStoreEffects ==
  (trial.phase = "second" /\ \E p \in Procs : Kind(p) = "auto" /\ out.by = p) =>
    /\ trial.order = trial.first.order
    /\ raw = trial.first.raw
    /\ tools = trial.first.tools
    /\ out.response.processed = trial.first.response.processed
    /\ out.response.failed = trial.first.response.failed

C23_Witness ==
  /\ trial.phase = "second" /\ \E p \in Procs : Kind(p) = "auto" /\ out.by = p
  /\ trial.order = <<1, 2>>
  /\ out.response.processed = 1 /\ out.response.failed = 1
  /\ tools # <<>>

\* the step in which the run of p over a snapshot of records ends
EndsRun(p) == run[p].items # <<>> /\ run'[p].pc = "idle"

\* C24: a batch run over a snapshot of N records ends only after N attempts,
\* out of the delay after the last one and with its summary returned or
\* logged; while it runs its snapshot stays as fetched (the Pending set is
\* not read again) and each attempt is on the next record of the snapshot,
\* so no record is attempted twice.
C24_ExactlyNAttempts ==
  [][\A p \in Procs : Batch(p) =>
        /\ EndsRun(p) =>
             /\ run[p].pc = "delay" /\ run[p].idx = Len(run[p].items)
             /\ Len(run[p].results) = Len(run[p].items)
             /\ out'.by = p
             /\ out'.response.message \in
                  {"Processing completed", "Auto-processing completed"}
        /\ (run[p].items # <<>> /\ ~EndsRun(p)) =>
             /\ run'[p].items = run[p].items
             /\ run'[p].idx \in {run[p].idx, run[p].idx + 1}
             /\ run'[p].idx <= Len(run[p].items)]_vars

\* the step in which the scheduled run p ends in its catch block
AutoError(p) ==
  Kind(p) = "auto" /\ out'.by = p /\ out'.response.message = "Auto-processing error"

\* C25: when a store call of a scheduled run fails while counting or
\* selecting the Pending records, or the Failed update of an attempt throws,
\* the run ends in its own catch block with the error logged; that step
\* answers nothing to anyone, leaves every other handler, both stores, the
\* flag (process.env.AUTO_PROCESS and AUTO_PROCESS) and the timers as they
\* were, and leaves the invocation over, so that the next two-hour mark
\* calls autoProcessPendingData as the flag says.
C25_ErrorContained ==
  [][\A p \in Procs : Kind(p) = "auto" =>
        /\ (Acts(p) /\ Fails /\ run[p].pc \in {"count", "find", "catch"})
              => AutoError(p)
        /\ AutoError(p) =>
             /\ run'[p] = IdleRun
             /\ out'.response.code = 0
             /\ \A q \in Procs \ {p} : run'[q] = run[q]
             /\ UNCHANGED <<envAuto, autoProcess, timerArmed, cronScheduled,
                            lastSet, raw, tools>>]_vars

\* a scheduled run started after one that ended in its catch block before
\* any attempt (the count or the find failed)
C25_Witness ==
  \E p \in Procs :
    /\ Kind(p) = "auto" /\ run[p].pc = "count"
    /\ starts = 2 /\ faults = 1 /\ ~timerArmed
    /\ \A id \in Ids : attempts[id] = "never"

====
